---- MODULE Spec2Model ----
(***************************************************************************)
(* Model of the two services of the repository:                            *)
(*   services/pub-sub-assessment03/main.py        publish_message          *)
(*   services/firestore-crud-api-assessment02/main.py   the items API      *)
(* The Pub/Sub endpoint and the Firestore store are the collaborators the  *)
(* handlers call; they are modelled by what the client libraries do.       *)
(***************************************************************************)
EXTENDS Integers, Sequences, FiniteSets, TLC

\* ------------------------------------------------------------------ bounds
\* handler invocations of publish_message that may run concurrently
NumHandlers == 2
\* publish_message invocations started in one process lifetime
MaxRequests == 2
\* items API handler invocations that may run concurrently
NumWorkers == 2
\* items API handler invocations started
MaxOps == 3
\* attempts the transaction layer makes before it gives up on contention
MaxAttempts == 2

\* ------------------------------------------------------------ JSON inputs
Handlers == 1..NumHandlers

Fields == {"message", "request_id"}

\* values a JSON request_id may take: strings (one of them empty), a number,
\* a list (unhashable in Python)
StrRid(s) == [t |-> "str", s |-> s]
StrRids == {StrRid("r1"), StrRid("r2"), StrRid("")}
OtherRids == {[t |-> "num", s |-> "7"], [t |-> "list", s |-> "[]"]}
NoRid == [t |-> "none", s |-> "-"]

Messages == {"hello", "bye"}
NoMessage == "-"

\* request bodies. kind: "unparseable" (zero bytes or malformed JSON),
\* "falsy" (null, 0, false, "", []), "scalar" (a non-zero number or true),
\* "sequence" (a non-empty JSON string or array; names = which of the two
\* field names occur in it, as a substring or as an element), "object"
\* (names = its keys).
Body(k, n, m, r) == [kind |-> k, names |-> n, message |-> m, request_id |-> r]
Bodies ==
    {Body(k, {}, NoMessage, NoRid) : k \in {"unparseable", "falsy", "scalar"}}
    \cup {Body("sequence", n, NoMessage, NoRid) : n \in SUBSET Fields}
    \cup {Body("object", {}, NoMessage, NoRid),
          Body("object", {"message"}, "hello", NoRid),
          Body("object", {"request_id"}, NoMessage, StrRid("r1"))}
    \cup {Body("object", Fields, m, r) : m \in Messages, r \in StrRids}
    \cup {Body("object", Fields, "hello", r) : r \in OtherRids}
NoBody == Body("none", {}, NoMessage, NoRid)

\* responses of publish_message: (jsonify(...), status)
Resp(st, b, id) == [status |-> st, body |-> b, id |-> id]
NoResp == Resp(0, "none", 0)

\* ----------------------------------------------------------- items inputs
Workers == 1..NumWorkers

Keys == {"K", "missing-key"}
Names == {"Widget", "Gadget"}
NoDescription == "null"
Descriptions == {"blue"}
Prices == {9, 12}

\* a stored document; Absent is the snapshot of a key that holds none
Doc(n, d, pr) == [exists |-> TRUE, name |-> n, description |-> d, price |-> pr]
Absent == [exists |-> FALSE, name |-> "", description |-> NoDescription, price |-> 0]

\* class Item, lines 29-32
Items == {Doc("Widget", NoDescription, 9), Doc("Gadget", "blue", 12)}

\* class ItemUpdate, lines 35-38: set = the fields that are not None
ItemFields == {"name", "description", "price"}
ItemUpdate(F, n, d, pr) ==
    [set |-> F, name |-> IF "name" \in F THEN n ELSE "",
     description |-> IF "description" \in F THEN d ELSE NoDescription,
     price |-> IF "price" \in F THEN pr ELSE 0]
ItemUpdates ==
    {ItemUpdate(F, "Gadget", d, 12) :
        F \in {{}, {"name"}, {"price"}, ItemFields}, d \in Descriptions}
NoItem == [set |-> {}, name |-> "", description |-> NoDescription, price |-> 0]

\* responses of the items API: status, message and the value returned
SResp(st, m, v) == [status |-> st, message |-> m, value |-> v]
NoSResp == SResp(0, "none", 0)

\* what is remembered of the invocation that finished last: whether it was
\* an update_price, and then its key, its price argument and how it ended
Call(o, k, v, e) ==
    IF o = "update_price" THEN [op |-> o, key |-> k, price |-> v, end |-> e]
    ELSE [op |-> "other", key |-> "K", price |-> 0, end |-> "done"]
NoCall == Call("other", "K", 0, "done")

VARIABLES
    docs,               \* the "items" collection: key -> document
    ops,                \* items API invocations started so far
    sop,                \* per worker: the handler it runs
    spc,                \* per worker: position in the handler
    item_id,            \* per worker: the path parameter
    item,               \* per worker: the ItemUpdate body
    new_price,          \* per worker: line 95
    snap,               \* per worker: the snapshot read in the transaction
    stale,              \* per worker: the document was written after snap
    attempts,           \* per worker: transaction attempts finished
    sresp,              \* per worker: the response returned
    last,               \* the invocation that finished most recently
    processed_requests, \* main.py:10, the process-wide set
    topic,              \* calls received by the publish endpoint, in order
    nextId,             \* the endpoint's next message identifier
    started,            \* publish_message invocations started so far
    pc,                 \* per handler: position in publish_message
    data,               \* per handler: the request body (line 15)
    request_id,         \* per handler: line 19
    message,            \* per handler: line 20
    future,             \* per handler: index in topic of its publish call
    message_id,         \* per handler: line 35
    calls,              \* per handler: publish-endpoint calls of this invocation
    resp                \* per handler: the response returned

pubVars == <<processed_requests, topic, nextId, started, pc, data, request_id,
             message, future, message_id, calls, resp>>

storeVars == <<docs, ops, sop, spc, item_id, item, new_price, snap, stale,
               attempts, sresp, last>>

vars == <<pubVars, storeVars>>

Init ==
    /\ processed_requests = {}
    /\ topic = <<>>
    /\ nextId = 1
    /\ started = 0
    /\ pc = [p \in Handlers |-> "idle"]
    /\ data = [p \in Handlers |-> NoBody]
    /\ request_id = [p \in Handlers |-> NoRid]
    /\ message = [p \in Handlers |-> NoMessage]
    /\ future = [p \in Handlers |-> 0]
    /\ message_id = [p \in Handlers |-> 0]
    /\ calls = [p \in Handlers |-> 0]
    /\ resp = [p \in Handlers |-> NoResp]
    \* the collection outlives the process: it starts with one document
    /\ docs = [k \in Keys |-> IF k = "K" THEN Doc("Widget", NoDescription, 9)
                                          ELSE Absent]
    /\ ops = 0
    /\ sop = [w \in Workers |-> "none"]
    /\ spc = [w \in Workers |-> "idle"]
    /\ item_id = [w \in Workers |-> "K"]
    /\ item = [w \in Workers |-> NoItem]
    /\ new_price = [w \in Workers |-> 0]
    /\ snap = [w \in Workers |-> Absent]
    /\ stale = [w \in Workers |-> FALSE]
    /\ attempts = [w \in Workers |-> 0]
    /\ sresp = [w \in Workers |-> NoSResp]
    /\ last = NoCall

\* ------------------------------------------------------- publish_message
\* the outcome of lines 15-20 for a body: "raise", "invalid" or "ok"
Validate(b) ==
    CASE b.kind = "unparseable" -> "raise"     \* get_json raises BadRequest
      [] b.kind = "falsy" -> "invalid"          \* not data
      [] b.kind = "scalar" -> "raise"           \* "message" not in 5: TypeError
      [] ~(Fields \subseteq b.names) -> "invalid"
      [] b.kind = "object" -> "ok"
      [] OTHER -> "raise"               \* data["request_id"] on a str or list

\* the except clause, lines 40-42
Raise(p) ==
    /\ pc' = [pc EXCEPT ![p] = "done"]
    /\ resp' = [resp EXCEPT ![p] = Resp(500, "error", 0)]

\* handlers are interchangeable: a request goes to the first free one
Idle(p) == pc[p] \in {"idle", "done"}
FirstIdle(p) == Idle(p) /\ \A q \in Handlers : q < p => ~Idle(q)

\* lines 15-20: parse and validate the body of a new invocation
Receive(p, b) ==
    /\ UNCHANGED storeVars
    /\ FirstIdle(p)
    /\ started < MaxRequests
    /\ started' = started + 1
    /\ data' = [data EXCEPT ![p] = b]
    /\ future' = [future EXCEPT ![p] = 0]
    /\ message_id' = [message_id EXCEPT ![p] = 0]
    /\ calls' = [calls EXCEPT ![p] = 0]
    /\ CASE Validate(b) = "raise" ->
              /\ Raise(p)
              /\ request_id' = [request_id EXCEPT ![p] = NoRid]
              /\ message' = [message EXCEPT ![p] = NoMessage]
         [] Validate(b) = "invalid" ->
              /\ pc' = [pc EXCEPT ![p] = "done"]
              /\ resp' = [resp EXCEPT ![p] = Resp(400, "Invalid payload", 0)]
              /\ request_id' = [request_id EXCEPT ![p] = NoRid]
              /\ message' = [message EXCEPT ![p] = NoMessage]
         [] OTHER ->
              /\ pc' = [pc EXCEPT ![p] = "check"]
              /\ resp' = [resp EXCEPT ![p] = NoResp]
              /\ request_id' = [request_id EXCEPT ![p] = b.request_id]
              /\ message' = [message EXCEPT ![p] = b.message]
    /\ UNCHANGED <<processed_requests, topic, nextId>>

\* lines 22-23 without the membership test: every request goes on to publish
CheckProcessedSkipped(p) ==
    /\ UNCHANGED storeVars
    /\ pc[p] = "check"
    /\ pc' = [pc EXCEPT ![p] = "publish"]
    /\ UNCHANGED <<processed_requests, topic, nextId, started, data, request_id,
                   message, future, message_id, calls, resp>>

\* lines 22-23 with the test keyed on the request_id and the message: a
\* recorded request_id is suppressed only when its message was published
CheckProcessedByMessage(p) ==
    /\ UNCHANGED storeVars
    /\ pc[p] = "check"
    /\ IF request_id[p].t = "list"
         THEN Raise(p)
         ELSE IF /\ request_id[p] \in processed_requests
                 /\ \E i \in DOMAIN topic :
                       /\ topic[i].request_id = request_id[p].s
                       /\ topic[i].data = message[p]
           THEN /\ pc' = [pc EXCEPT ![p] = "done"]
                /\ resp' = [resp EXCEPT ![p] = Resp(202, "Already processed", 0)]
           ELSE /\ pc' = [pc EXCEPT ![p] = "publish"]
                /\ UNCHANGED resp
    /\ UNCHANGED <<processed_requests, topic, nextId, started, data, request_id,
                   message, future, message_id, calls>>

\* lines 22-23: the membership test
CheckProcessed(p) ==
    /\ UNCHANGED storeVars
    /\ pc[p] = "check"
    /\ IF request_id[p].t = "list"
         THEN Raise(p)                          \* unhashable: TypeError
         ELSE IF request_id[p] \in processed_requests
           THEN /\ pc' = [pc EXCEPT ![p] = "done"]
                /\ resp' = [resp EXCEPT ![p] = Resp(202, "Already processed", 0)]
           ELSE /\ pc' = [pc EXCEPT ![p] = "publish"]
                /\ UNCHANGED resp
    /\ UNCHANGED <<processed_requests, topic, nextId, started, data, request_id,
                   message, future, message_id, calls>>

\* the message handed to the endpoint: json.dumps(message) and the attributes
Published(p) ==
    [request_id |-> request_id[p].s, source |-> "http-function",
     data |-> message[p], id |-> 0, state |-> "pending"]

\* lines 25-36 with line 36 moved before the wait of line 35: the request_id
\* is recorded as soon as the publish call is made
PublishRecords(p) ==
    /\ UNCHANGED storeVars
    /\ pc[p] = "publish"
    /\ IF request_id[p].t # "str"
         THEN /\ Raise(p)
              /\ UNCHANGED <<topic, future, calls, processed_requests>>
         ELSE /\ topic' = Append(topic, Published(p))
              /\ future' = [future EXCEPT ![p] = Len(topic) + 1]
              /\ calls' = [calls EXCEPT ![p] = calls[p] + 1]
              /\ processed_requests' = processed_requests \cup {request_id[p]}
              /\ pc' = [pc EXCEPT ![p] = "wait"]
              /\ UNCHANGED resp
    /\ UNCHANGED <<nextId, started, data, request_id, message, message_id>>

\* lines 25-34: publisher.publish
Publish(p) ==
    /\ UNCHANGED storeVars
    /\ pc[p] = "publish"
    /\ IF request_id[p].t # "str"
         THEN /\ Raise(p)                       \* attributes must be text
              /\ UNCHANGED <<topic, future, calls>>
         ELSE /\ topic' = Append(topic, Published(p))
              /\ future' = [future EXCEPT ![p] = Len(topic) + 1]
              /\ calls' = [calls EXCEPT ![p] = calls[p] + 1]
              /\ pc' = [pc EXCEPT ![p] = "wait"]
              /\ UNCHANGED resp
    /\ UNCHANGED <<processed_requests, nextId, started, data, request_id,
                   message, message_id>>

\* line 35: future.result() returns the identifier the endpoint assigned
Acknowledge(p) ==
    /\ UNCHANGED storeVars
    /\ pc[p] = "wait"
    /\ topic' = [topic EXCEPT ![future[p]].id = nextId,
                              ![future[p]].state = "acked"]
    /\ nextId' = nextId + 1
    /\ message_id' = [message_id EXCEPT ![p] = nextId]
    /\ pc' = [pc EXCEPT ![p] = "add"]
    /\ UNCHANGED <<processed_requests, started, data, request_id, message,
                   future, calls, resp>>

\* line 35 failing after the request id was recorded (line 36 moved before
\* the wait)
PublishFailsRecorded(p) ==
    /\ UNCHANGED storeVars
    /\ pc[p] = "wait"
    /\ topic' = [topic EXCEPT ![future[p]].state = "failed"]
    /\ processed_requests' = processed_requests \cup {request_id[p]}
    /\ Raise(p)
    /\ UNCHANGED <<nextId, started, data, request_id, message, future,
                   message_id, calls>>

\* lines 40-42 with a cleanup added: a failed publish discards its request_id
\* from the set so that a retry can go through
PublishFailsDiscards(p) ==
    /\ UNCHANGED storeVars
    /\ pc[p] = "wait"
    /\ topic' = [topic EXCEPT ![future[p]].state = "failed"]
    /\ processed_requests' = processed_requests \ {request_id[p]}
    /\ Raise(p)
    /\ UNCHANGED <<nextId, started, data, request_id, message, future,
                   message_id, calls>>

\* line 35: future.result() raises (publish failed or timed out)
PublishFails(p) ==
    /\ UNCHANGED storeVars
    /\ pc[p] = "wait"
    /\ topic' = [topic EXCEPT ![future[p]].state = "failed"]
    /\ Raise(p)
    /\ UNCHANGED <<processed_requests, nextId, started, data, request_id,
                   message, future, message_id, calls>>

\* line 36: processed_requests.add(request_id)
AddProcessed(p) ==
    /\ UNCHANGED storeVars
    /\ pc[p] = "add"
    /\ processed_requests' = processed_requests \cup {request_id[p]}
    /\ pc' = [pc EXCEPT ![p] = "respond"]
    /\ UNCHANGED <<topic, nextId, started, data, request_id, message, future,
                   message_id, calls, resp>>

\* line 38 returning the future's position instead of its result
RespondFuture(p) ==
    /\ UNCHANGED storeVars
    /\ pc[p] = "respond"
    /\ pc' = [pc EXCEPT ![p] = "done"]
    /\ resp' = [resp EXCEPT ![p] = Resp(202, "messageId", future[p])]
    /\ UNCHANGED <<processed_requests, topic, nextId, started, data, request_id,
                   message, future, message_id, calls>>

\* line 38: return the message identifier with 202
Respond(p) ==
    /\ UNCHANGED storeVars
    /\ pc[p] = "respond"
    /\ pc' = [pc EXCEPT ![p] = "done"]
    /\ resp' = [resp EXCEPT ![p] = Resp(202, "messageId", message_id[p])]
    /\ UNCHANGED <<processed_requests, topic, nextId, started, data, request_id,
                   message, future, message_id, calls>>

publish_message(p) ==
    \/ \E b \in Bodies : Receive(p, b)
    \/ CheckProcessed(p)
    \/ Publish(p)
    \/ Acknowledge(p)
    \/ PublishFails(p)
    \/ AddProcessed(p)
    \/ Respond(p)

\* --------------------------------------------------------------- items API
Terminal == {"done", "NOT_FOUND", "COMMITTED", "ABORTED"}

\* a store that does not track what open transactions have read: a write
\* leaves their snapshots valid (the read of line 103 made as a plain read)
ForgetStale(k, w) ==
    [x \in Workers |-> IF x = w THEN FALSE ELSE stale[x]]

\* a write to key k invalidates the snapshot of every other open transaction
\* that has read k (the store's optimistic-concurrency check at commit)
MarkStale(k, w) ==
    [x \in Workers |->
        IF x = w THEN FALSE
        ELSE IF sop[x] = "update_price" /\ spc[x] = "WRITING" /\ item_id[x] = k
          THEN TRUE ELSE stale[x]]

\* a full-document overwrite (set): the fields not named are dropped
OverwriteFields(doc, u) ==
    [exists |-> TRUE,
     name |-> IF "name" \in u.set THEN u.name ELSE "",
     description |-> IF "description" \in u.set THEN u.description
                     ELSE NoDescription,
     price |-> IF "price" \in u.set THEN u.price ELSE 0]

\* DocumentReference.update / Transaction.update: a field-level update that
\* sets the named fields and leaves the others
UpdateFields(doc, u) ==
    [doc EXCEPT !.name = IF "name" \in u.set THEN u.name ELSE @,
                !.description = IF "description" \in u.set THEN u.description ELSE @,
                !.price = IF "price" \in u.set THEN u.price ELSE @]

\* line 106: the update the transaction buffers, {"price": new_price}
PriceFields(v) == [set |-> {"price"}, name |-> "", description |-> NoDescription,
                   price |-> v]

\* an update that adds to the stored price instead of replacing it
IncrementDoc(d, k, u) ==
    IF d[k].exists /\ "price" \in u.set
      THEN [d EXCEPT ![k].price = @ + u.price]
      ELSE d

\* an update carries the precondition that the document exists
UpdateDoc(d, k, u) ==
    IF d[k].exists THEN [d EXCEPT ![k] = UpdateFields(d[k], u)] ELSE d

\* lines 56-61: what GET /items/{item_id} returns for the collection d
get_item(d, k) ==
    IF d[k].exists
      THEN [status |-> 200, id |-> k, name |-> d[k].name,
            description |-> d[k].description, price |-> d[k].price]
      ELSE [status |-> 404, id |-> k, name |-> "", description |-> NoDescription,
            price |-> 0]

\* workers are interchangeable: a request goes to the first free one
Free(w) == spc[w] \in {"idle"} \cup Terminal
FirstFree(w) == Free(w) /\ \A x \in Workers : x < w => ~Free(x)

\* worker w starts a new invocation
Dispatch(w) ==
    /\ FirstFree(w)
    /\ ops < MaxOps
    /\ ops' = ops + 1

\* a new invocation of the multi-step handler o on worker w, entered at `at`
Begin(w, o, k, u, v, at) ==
    /\ Dispatch(w)
    /\ sop' = [sop EXCEPT ![w] = o]
    /\ item_id' = [item_id EXCEPT ![w] = k]
    /\ item' = [item EXCEPT ![w] = u]
    /\ new_price' = [new_price EXCEPT ![w] = v]
    /\ snap' = [snap EXCEPT ![w] = Absent]
    /\ attempts' = [attempts EXCEPT ![w] = 0]
    /\ spc' = [spc EXCEPT ![w] = at]
    /\ sresp' = [sresp EXCEPT ![w] = NoSResp]
    /\ UNCHANGED last

\* the invocation of handler o on worker w ends in state e with response r;
\* its locals go out of scope
End(w, o, e, r) ==
    /\ spc' = [spc EXCEPT ![w] = e]
    /\ item_id' = [item_id EXCEPT ![w] = "K"]
    /\ item' = [item EXCEPT ![w] = NoItem]
    /\ new_price' = [new_price EXCEPT ![w] = 0]
    /\ snap' = [snap EXCEPT ![w] = Absent]
    /\ attempts' = [attempts EXCEPT ![w] = 0]
    /\ sresp' = [sresp EXCEPT ![w] = r]
    /\ last' = Call(o, item_id[w], new_price[w], e)

Finish(w, e, r) == End(w, sop[w], e, r)

\* a handler that makes one store call: worker w serves it in one step
Serve(w, o, r) ==
    /\ Dispatch(w)
    /\ sop' = [sop EXCEPT ![w] = o]
    /\ End(w, o, "done", r)

\* lines 45-50: the store assigns an unused id and stores the item
create_item(w, it) ==
    \E k \in Keys :
       /\ UNCHANGED pubVars
       /\ ~docs[k].exists
       /\ Serve(w, "create_item", SResp(200, "id", 0))
       /\ docs' = [docs EXCEPT ![k] = it]
       /\ stale' = MarkStale(k, w)

\* lines 51-53: the store call fails
create_item_fails(w) ==
    /\ UNCHANGED pubVars
    /\ Serve(w, "create_item", SResp(500, "Failed to create item", 0))
    /\ UNCHANGED <<docs, stale>>

\* lines 77-81: delete has no precondition
delete_item(w, k) ==
    /\ UNCHANGED pubVars
    /\ Serve(w, "delete_item", SResp(200, "Item deleted", 0))
    /\ docs' = [docs EXCEPT ![k] = Absent]
    /\ stale' = MarkStale(k, w)

\* lines 64-69: the plain read and the existence check of update_item
update_item_get(w, k, u) ==
    /\ UNCHANGED pubVars
    /\ IF docs[k].exists
         THEN Begin(w, "update_item", k, u, 0, "update")
         ELSE Serve(w, "update_item", SResp(404, "Item not found", 0))
    /\ UNCHANGED <<docs, stale>>

\* lines 71-74 writing with set(updates, merge=True) instead of update: the
\* write has no precondition and stores the fields under the key
update_item_write_merge(w) ==
    /\ UNCHANGED pubVars
    /\ sop[w] = "update_item" /\ spc[w] = "update"
    /\ docs' = [docs EXCEPT ![item_id[w]] =
                    UpdateFields([@ EXCEPT !.exists = TRUE], item[w])]
    /\ stale' = MarkStale(item_id[w], w)
    /\ Finish(w, "done", SResp(200, "Item updated", 0))
    /\ UNCHANGED <<ops, sop>>

\* lines 71-74 without the filter of line 71: every field of item.dict() is
\* written, the ones left out as None
update_item_write_unfiltered(w) ==
    /\ UNCHANGED pubVars
    /\ sop[w] = "update_item" /\ spc[w] = "update"
    /\ IF ~docs[item_id[w]].exists
         THEN /\ UNCHANGED <<docs, stale>>
              /\ Finish(w, "done", SResp(500, "Internal Server Error", 0))
         ELSE /\ docs' = UpdateDoc(docs, item_id[w],
                                   [item[w] EXCEPT !.set = ItemFields])
              /\ stale' = MarkStale(item_id[w], w)
              /\ Finish(w, "done", SResp(200, "Item updated", 0))
    /\ UNCHANGED <<ops, sop>>

\* lines 71-74: the update; it raises on an empty update and on a missing
\* document, which the framework answers with 500
update_item_write(w) ==
    /\ UNCHANGED pubVars
    /\ sop[w] = "update_item" /\ spc[w] = "update"
    /\ IF item[w].set = {} \/ ~docs[item_id[w]].exists
         THEN /\ UNCHANGED <<docs, stale>>
              /\ Finish(w, "done", SResp(500, "Internal Server Error", 0))
         ELSE /\ docs' = UpdateDoc(docs, item_id[w], item[w])
              /\ stale' = MarkStale(item_id[w], w)
              /\ Finish(w, "done", SResp(200, "Item updated", 0))
    /\ UNCHANGED <<ops, sop>>

\* lines 94-98: update_price takes the new price and opens a transaction
update_price(w, k, v) ==
    /\ UNCHANGED pubVars
    /\ Begin(w, "update_price", k, NoItem, v, "START")
    /\ UNCHANGED <<docs, stale>>

\* line 109: the transactional wrapper begins an attempt
BeginTransaction(w) ==
    /\ UNCHANGED pubVars
    /\ sop[w] = "update_price" /\ spc[w] = "START"
    /\ spc' = [spc EXCEPT ![w] = "READING"]
    /\ UNCHANGED <<docs, ops, sop, item_id, item, new_price, snap, stale,
                   attempts, sresp, last>>

\* the response of the except clause, lines 112-114
TransactionFailed == SResp(500, "Transaction failed", 0)

\* line 109: the wrapper's begin call to the store fails (connectivity); the
\* exception reaches line 112 before txn_fn has run
BeginFails(w) ==
    /\ UNCHANGED pubVars
    /\ sop[w] = "update_price" /\ spc[w] = "START"
    /\ Finish(w, "ABORTED", TransactionFailed)
    /\ UNCHANGED <<docs, ops, sop, stale>>

\* what the caller gets when txn_fn raised HTTPException(404) at line 105: the
\* wrapper rolls back and re-raises, and line 112 catches every Exception
NotFoundResponse == TransactionFailed

\* lines 103-106: the transactional read finds the document and the write
\* is buffered
TxnRead(w) ==
    /\ UNCHANGED pubVars
    /\ sop[w] = "update_price" /\ spc[w] = "READING"
    /\ docs[item_id[w]].exists
    /\ snap' = [snap EXCEPT ![w] = docs[item_id[w]]]
    /\ stale' = [stale EXCEPT ![w] = FALSE]
    /\ spc' = [spc EXCEPT ![w] = "WRITING"]
    /\ UNCHANGED <<docs, ops, sop, item_id, item, new_price, attempts, sresp,
                   last>>

\* lines 103-106 without the check of lines 104-105: the write is buffered
\* although the read found no document
TxnReadMissingWrites(w) ==
    /\ UNCHANGED pubVars
    /\ sop[w] = "update_price" /\ spc[w] = "READING"
    /\ ~docs[item_id[w]].exists
    /\ snap' = [snap EXCEPT ![w] = docs[item_id[w]]]
    /\ stale' = [stale EXCEPT ![w] = FALSE]
    /\ spc' = [spc EXCEPT ![w] = "WRITING"]
    /\ UNCHANGED <<docs, ops, sop, item_id, item, new_price, attempts, sresp,
                   last>>

\* lines 103-105: the transactional read finds no document and txn_fn raises
TxnReadMissing(w) ==
    /\ UNCHANGED pubVars
    /\ sop[w] = "update_price" /\ spc[w] = "READING"
    /\ ~docs[item_id[w]].exists
    /\ Finish(w, "NOT_FOUND", NotFoundResponse)
    /\ UNCHANGED <<docs, ops, sop, stale>>

\* line 103: the transactional read itself fails (connectivity); the wrapper
\* rolls back and re-raises, and line 112 catches the exception
TxnReadFails(w) ==
    /\ UNCHANGED pubVars
    /\ sop[w] = "update_price" /\ spc[w] = "READING"
    /\ Finish(w, "ABORTED", TransactionFailed)
    /\ UNCHANGED <<docs, ops, sop, stale>>

\* a commit that never checks the snapshot (a plain, non-transactional read)
NoConflict(w) == FALSE

\* the commit is refused when the document changed after the snapshot
Conflict(w) == stale[w]

\* line 109 returns: the commit applied the buffered write; lines 110-111
Commit(w) ==
    /\ UNCHANGED pubVars
    /\ sop[w] = "update_price" /\ spc[w] = "WRITING"
    /\ ~Conflict(w)
    /\ IF docs[item_id[w]].exists
         THEN /\ docs' = UpdateDoc(docs, item_id[w], PriceFields(new_price[w]))
              /\ stale' = MarkStale(item_id[w], w)
              /\ Finish(w, "COMMITTED",
                        SResp(200, "Price updated", new_price[w]))
         ELSE /\ UNCHANGED <<docs, stale>>
              /\ Finish(w, "ABORTED", TransactionFailed)
    /\ UNCHANGED <<ops, sop>>

\* a wrapper that runs txn_fn again on every conflict, with no budget
CommitRetryUnbounded(w) ==
    /\ UNCHANGED pubVars
    /\ sop[w] = "update_price" /\ spc[w] = "WRITING"
    /\ Conflict(w)
    /\ attempts' = [attempts EXCEPT ![w] = attempts[w] + 1]
    /\ spc' = [spc EXCEPT ![w] = "READING"]
    /\ snap' = [snap EXCEPT ![w] = Absent]
    /\ UNCHANGED <<docs, ops, sop, item_id, item, new_price, stale, sresp, last>>

\* the commit conflicts and the wrapper runs txn_fn again
CommitRetry(w) ==
    /\ UNCHANGED pubVars
    /\ sop[w] = "update_price" /\ spc[w] = "WRITING"
    /\ Conflict(w)
    /\ attempts[w] + 1 < MaxAttempts
    /\ attempts' = [attempts EXCEPT ![w] = attempts[w] + 1]
    /\ spc' = [spc EXCEPT ![w] = "READING"]
    /\ snap' = [snap EXCEPT ![w] = Absent]
    /\ UNCHANGED <<docs, ops, sop, item_id, item, new_price, stale, sresp, last>>

\* the commit conflicts on the last attempt: the wrapper raises
CommitExhausted(w) ==
    /\ UNCHANGED pubVars
    /\ sop[w] = "update_price" /\ spc[w] = "WRITING"
    /\ Conflict(w)
    /\ attempts[w] + 1 >= MaxAttempts
    /\ stale' = [stale EXCEPT ![w] = FALSE]
    /\ Finish(w, "ABORTED", TransactionFailed)
    /\ UNCHANGED <<docs, ops, sop>>

\* lines 112-114 without the raise: the failure is logged and the handler
\* answers as if the commit had been applied
CommitErrorSwallowed(w) ==
    /\ UNCHANGED pubVars
    /\ sop[w] = "update_price" /\ spc[w] = "WRITING"
    /\ stale' = [stale EXCEPT ![w] = FALSE]
    /\ Finish(w, "ABORTED", SResp(200, "Price updated", new_price[w]))
    /\ UNCHANGED <<docs, ops, sop>>

\* the commit fails for another reason (connectivity) and nothing is written
CommitError(w) ==
    /\ UNCHANGED pubVars
    /\ sop[w] = "update_price" /\ spc[w] = "WRITING"
    /\ stale' = [stale EXCEPT ![w] = FALSE]
    /\ Finish(w, "ABORTED", TransactionFailed)
    /\ UNCHANGED <<docs, ops, sop>>

\* the store applies the commit but its confirmation never arrives
CommitUnconfirmed(w) ==
    /\ UNCHANGED pubVars
    /\ sop[w] = "update_price" /\ spc[w] = "WRITING"
    /\ ~Conflict(w)
    /\ docs' = UpdateDoc(docs, item_id[w], PriceFields(new_price[w]))
    /\ stale' = MarkStale(item_id[w], w)
    /\ Finish(w, "ABORTED", TransactionFailed)
    /\ UNCHANGED <<ops, sop>>

items_api(w) ==
    \/ \E it \in Items : create_item(w, it)
    \/ create_item_fails(w)
    \/ \E k \in Keys : delete_item(w, k)
    \/ \E k \in Keys, u \in ItemUpdates : update_item_get(w, k, u)
    \/ update_item_write(w)
    \/ \E k \in Keys, v \in Prices : update_price(w, k, v)
    \/ BeginTransaction(w)
    \/ BeginFails(w)
    \/ TxnRead(w)
    \/ TxnReadMissing(w)
    \/ TxnReadFails(w)
    \/ Commit(w)
    \/ CommitRetry(w)
    \/ CommitExhausted(w)
    \/ CommitError(w)
    \/ CommitUnconfirmed(w)

\* -------------------------------------------------------- specifications
\* handlers of one process interleave at every step
PubNext == \E p \in Handlers : publish_message(p)

\* non-overlapping calls: a handler moves only while no other one is mid-call
Quiet(p) == \A q \in Handlers \ {p} : Idle(q)
PubSeqNext == \E p \in Handlers : Quiet(p) /\ publish_message(p)

\* requests to the items API are served concurrently
StoreNext == \E w \in Workers : items_api(w)

\* non-overlapping requests to the items API
StoreQuiet(w) == \A x \in Workers \ {w} : Free(x)
StoreSeqNext == \E w \in Workers : StoreQuiet(w) /\ items_api(w)

SpecPub == Init /\ [][PubNext]_vars
SpecPubSeq == Init /\ [][PubSeqNext]_vars
SpecStore == Init /\ [][StoreNext]_vars
SpecStoreSeq == Init /\ [][StoreSeqNext]_vars

\* ------------------------------------------------------------ properties
Valid(b) == Validate(b) = "ok"
Acked(r) == \E i \in DOMAIN topic : topic[i].request_id = r.s /\ topic[i].state = "acked"
MidCall(w) == spc[w] \in {"START", "READING", "WRITING"}

\* C1: concurrently executing publish_message invocations that carry the same
\* request_id make one call to the publish endpoint between them: no two
\* handlers are in flight at once with a publish call each for one request_id.
C1_OnePublishPerRequestId ==
    \A p, q \in Handlers :
        (p # q /\ ~Idle(p) /\ ~Idle(q) /\ calls[p] > 0 /\ calls[q] > 0)
            => request_id[p] # request_id[q]

\* C2: with non-overlapping calls, after a publish of R was acknowledged no
\* later call publishes R (every earlier publish of a request_id failed), a
\* handler past the membership test never holds a recorded request_id, and a
\* valid call that made no publish call answered "Already processed" with 202.
C2_NeverRepublished ==
    /\ \A i, j \in DOMAIN topic :
          (i < j /\ topic[i].request_id = topic[j].request_id)
              => topic[i].state = "failed"
    /\ \A p \in Handlers :
          /\ pc[p] \in {"publish", "wait", "add"}
                => request_id[p] \notin processed_requests
          /\ (pc[p] = "done" /\ Valid(data[p]) /\ request_id[p].t = "str"
                /\ calls[p] = 0)
                => /\ resp[p] = Resp(202, "Already processed", 0)
                   /\ Acked(request_id[p])

\* a second call with an already published request_id was suppressed
C2_Witness ==
    \E p \in Handlers :
        /\ pc[p] = "done" /\ resp[p] = Resp(202, "Already processed", 0)
        /\ calls[p] = 0 /\ Acked(request_id[p])
        /\ Len(topic) = 1

\* C3: an invocation with a valid payload whose request_id is not recorded
\* calls the publish endpoint exactly once, and once the endpoint has
\* acknowledged it returns 202 with exactly the identifier the endpoint
\* assigned to that call.
C3_PublishOnceReturnsId ==
    \A p \in Handlers :
        /\ calls[p] <= 1
        /\ pc[p] \in {"wait", "add", "respond"} => calls[p] = 1
        /\ (pc[p] = "done" /\ Valid(data[p]) /\ request_id[p].t = "str"
              /\ resp[p].body # "Already processed") => calls[p] = 1
        /\ calls[p] = 1 =>
              /\ topic[future[p]].request_id = request_id[p].s
              /\ topic[future[p]].data = message[p]
        /\ (pc[p] = "done" /\ calls[p] = 1 /\ topic[future[p]].state = "acked")
              => resp[p] = Resp(202, "messageId", topic[future[p]].id)
        /\ resp[p].body = "messageId"
              => calls[p] = 1 /\ topic[future[p]].state = "acked"

\* two invocations were acknowledged out of publish order and one has returned
C3_Witness ==
    \E p \in Handlers :
        /\ pc[p] = "done" /\ resp[p].body = "messageId"
        /\ resp[p].id # future[p]

\* C4: a publish that fails is answered with 500 and leaves the request_id
\* unrecorded: every recorded request_id has an acknowledged publish, a
\* request is suppressed only after an acknowledged publish, a valid call for
\* a request_id with no acknowledged publish did call the endpoint, and a
\* request_id the publish client refuses is never recorded.
C4_FailureNotRecorded ==
    /\ \A r \in processed_requests : Acked(r)
    /\ \A p \in Handlers :
          /\ (pc[p] = "done" /\ calls[p] = 1 /\ topic[future[p]].state = "failed")
                => resp[p] = Resp(500, "error", 0)
          /\ resp[p].body = "Already processed" => Acked(request_id[p])
          /\ (pc[p] = "done" /\ Valid(data[p]) /\ request_id[p].t = "str"
                /\ ~Acked(request_id[p])) => calls[p] = 1
          /\ (pc[p] = "done" /\ Valid(data[p]) /\ request_id[p].t # "str")
                => /\ resp[p] = Resp(500, "error", 0)
                   /\ request_id[p] \notin processed_requests

\* after a failed publish of R a later call with R reached the endpoint again
C4_Witness ==
    \E i, j \in DOMAIN topic :
        /\ i < j /\ topic[i].request_id = topic[j].request_id
        /\ topic[i].state = "failed"
        /\ topic[i].request_id \notin {r.s : r \in processed_requests}

\* C5: every body that lacks the message field or the request_id field is
\* answered with 400, with no call to the publish endpoint.
C5_MissingFieldIs400 ==
    \A p \in Handlers :
        (pc[p] = "done" /\ ~(Fields \subseteq data[p].names))
            => resp[p].status = 400 /\ calls[p] = 0

\* C6: every payload that is not an object carrying message and a non-empty
\* string request_id is rejected with 400, with no call to the publish endpoint.
WellFormed(b) ==
    /\ b.kind = "object" /\ Fields \subseteq b.names
    /\ b.request_id.t = "str" /\ b.request_id.s # ""
C6_MalformedIs400 ==
    \A p \in Handlers :
        (~Idle(p) \/ pc[p] = "done") /\ ~WellFormed(data[p])
            => pc[p] = "done" /\ resp[p].status = 400 /\ calls[p] = 0

\* C7: an update_price whose transactional read finds no document is
\* answered with 404 and writes nothing.
C7_MissingIs404 ==
    [][\A w \in Workers :
          (sop[w] = "update_price" /\ spc[w] = "READING"
              /\ spc'[w] = "NOT_FOUND")
            => sresp'[w].status = 404 /\ docs' = docs]_vars

\* C8: no step of update_price creates a document, and its write is applied
\* only to the document its transaction read: the snapshot exists and the
\* stored document still equals it when the commit applies.
C8_WriteOnlyToSnapshot ==
    [][\A w \in Workers :
          (sop[w] = "update_price" /\ MidCall(w) /\ spc'[w] # spc[w])
            => /\ \A k \in Keys : ~docs[k].exists => ~docs'[k].exists
               /\ (docs' # docs \/ spc'[w] = "COMMITTED")
                    => /\ spc[w] = "WRITING"
                       /\ snap[w].exists
                       /\ docs[item_id[w]] = snap[w]]_vars

\* the document was deleted between the existence check and the commit
C8_Witness ==
    \E w \in Workers :
        /\ sop[w] = "update_price" /\ spc[w] = "WRITING"
        /\ stale[w] /\ ~docs[item_id[w]].exists

\* C9: a commit of update_price changes the price of its document and nothing
\* else: the other fields, the key and the other documents are as before, the
\* response carries the requested price, and a read then returns that price.
C9_OnlyPriceChanges ==
    [][\A w \in Workers :
          (sop[w] = "update_price" /\ spc[w] = "WRITING"
              /\ spc'[w] = "COMMITTED")
            => LET k == item_id[w]
                   v == new_price[w]
               IN /\ docs[k].exists
                  /\ docs' = [docs EXCEPT ![k].price = v]
                  /\ sresp'[w] = SResp(200, "Price updated", v)
                  /\ get_item(docs', k) =
                        [get_item(docs, k) EXCEPT !.price = v]]_vars

\* the scenario of the specification: Widget at K, price set to 12
C9_Witness ==
    \E w \in Workers :
        /\ spc[w] = "COMMITTED" /\ sresp[w] = SResp(200, "Price updated", 12)
        /\ docs["K"] = Doc("Widget", NoDescription, 12)

\* C10: when update_price(key, v) ended COMMITTED or NOT_FOUND and the next
\* invocation is update_price(key, v) again, no step of the second call
\* changes the collection: it is left as the first call left it.
C10_SecondCallChangesNothing ==
    [][\A w \in Workers :
          (sop[w] = "update_price" /\ MidCall(w)
              /\ last.op = "update_price" /\ last.key = item_id[w]
              /\ last.price = new_price[w]
              /\ last.end \in {"COMMITTED", "NOT_FOUND"})
            => docs' = docs]_vars

\* the second of two equal calls is about to commit
C10_Witness ==
    \E w \in Workers :
        /\ sop[w] = "update_price" /\ spc[w] = "WRITING"
        /\ last = Call("update_price", item_id[w], new_price[w], "COMMITTED")
        /\ new_price[w] = 12

\* C11: an update_price call that ends in failure after its transaction was
\* opened (retries exhausted, the store unreachable, or the confirmation of
\* the commit lost) is answered with 500 "Transaction failed", and the step
\* leaves the collection either exactly as it was or with exactly the price
\* of its document replaced: nothing in between is ever stored.
C11_FailureIsAtomic ==
    [][\A w \in Workers :
          (sop[w] = "update_price" /\ MidCall(w) /\ spc'[w] = "ABORTED")
            => LET k == item_id[w]
                   v == new_price[w]
               IN /\ sresp'[w] = SResp(500, "Transaction failed", 0)
                  /\ \/ docs' = docs
                     \/ /\ docs[k].exists
                        /\ docs' = [docs EXCEPT ![k].price = v]]_vars

\* a call on K with price 12 ended in failure and K holds the price 12
C11_Witness ==
    \E w \in Workers :
        /\ sop[w] = "update_price" /\ spc[w] = "ABORTED"
        /\ sresp[w] = SResp(500, "Transaction failed", 0)
        /\ last = Call("update_price", "K", 12, "ABORTED")
        /\ docs["K"] = Doc("Widget", NoDescription, 12)

\* C12: concurrent update_price calls on one document are applied one after
\* another, in the order of their commits. A step of update_price that changes
\* the collection is the commit of a transaction whose snapshot is still the
\* stored document (no write came between its read and its write), and it
\* yields the stored document with the price replaced; a call that ends
\* COMMITTED has its price in the store at that moment (it is overwritten
\* only by a later commit); a transaction the store refuses, because the
\* document was written after its read, changes nothing. A call is counted
\* as committed when the store applied its commit.
C12_CommitsAreSerial ==
    [][\A w \in Workers :
          (sop[w] = "update_price" /\ MidCall(w) /\ spc'[w] # spc[w])
            => LET k == item_id[w]
                   v == new_price[w]
               IN /\ (docs' # docs \/ spc'[w] = "COMMITTED")
                        => /\ spc[w] = "WRITING"
                           /\ snap[w].exists /\ snap[w] = docs[k]
                           /\ docs' = [docs EXCEPT ![k].price = v]
                           /\ docs'[k].price = v
                           /\ spc'[w] \in {"COMMITTED", "ABORTED"}
                  /\ (spc[w] = "WRITING" /\ (stale[w] \/ snap[w] # docs[k]))
                        => docs' = docs /\ spc'[w] # "COMMITTED"]_vars

\* a concurrent update_price committed another price on the document after
\* this transaction read it
C12_Witness ==
    \E w \in Workers :
        /\ sop[w] = "update_price" /\ spc[w] = "WRITING" /\ stale[w]
        /\ docs[item_id[w]].exists
        /\ docs[item_id[w]].price # snap[w].price
        /\ docs[item_id[w]].price # new_price[w]
        /\ last = Call("update_price", item_id[w], docs[item_id[w]].price,
                       "COMMITTED")

\* C13: no step of publish_message, whatever its outcome, removes a
\* request_id from processed_requests: the set only grows.
C13_SetOnlyGrows ==
    [][processed_requests \subseteq processed_requests']_vars

\* a publish failed for a request_id that a concurrent invocation had
\* already recorded, and the request_id is still in the set
C13_Witness ==
    \E p \in Handlers :
        /\ pc[p] = "done" /\ resp[p] = Resp(500, "error", 0)
        /\ calls[p] = 1 /\ topic[future[p]].state = "failed"
        /\ request_id[p] \in processed_requests

\* C14: a request_id enters processed_requests after the endpoint has
\* acknowledged a publish that carries it and before the response is
\* returned: every recorded request_id has an acknowledged publish, a handler
\* that waits for the endpoint has returned nothing, a handler at the add or
\* past it holds the acknowledgment of its own publish, and a response with a
\* messageId is returned only with the request_id recorded and carries the
\* identifier of that acknowledgment.
C14_RecordedAfterAck ==
    /\ \A r \in processed_requests :
          \E i \in DOMAIN topic :
              topic[i].request_id = r.s /\ topic[i].state = "acked"
    /\ \A p \in Handlers :
          /\ pc[p] \in {"publish", "wait", "add", "respond"} => resp[p] = NoResp
          /\ pc[p] \in {"add", "respond"}
                => /\ calls[p] = 1
                   /\ topic[future[p]].state = "acked"
                   /\ topic[future[p]].request_id = request_id[p].s
                   /\ topic[future[p]].id = message_id[p]
          /\ pc[p] = "respond" => request_id[p] \in processed_requests
          /\ resp[p].body = "messageId"
                => /\ resp[p].status = 202
                   /\ topic[future[p]].state = "acked"
                   /\ resp[p].id = topic[future[p]].id
                   /\ request_id[p] \in processed_requests

\* the publish is acknowledged and recorded, the response not yet returned
C14_Witness ==
    \E p \in Handlers :
        /\ pc[p] = "respond" /\ resp[p] = NoResp
        /\ topic[future[p]].state = "acked"
        /\ processed_requests = {request_id[p]}

\* a step of worker w inside an update_price call, and a step that starts one
PriceStep(w) == sop[w] = "update_price" /\ MidCall(w) /\ spc'[w] # spc[w]
PriceStart(w) ==
    /\ sop'[w] = "update_price" /\ spc'[w] # spc[w]
    /\ ~(sop[w] = "update_price" /\ MidCall(w))

\* C15: every update_price call follows the state machine START -> READING ->
\* {NOT_FOUND | WRITING -> COMMITTED | WRITING -> ABORTED}: a call starts in
\* START, START is left for READING only, READING for NOT_FOUND or WRITING
\* only, WRITING is entered only from a READING that observed the document,
\* and COMMITTED and ABORTED are reached only from WRITING (a refused commit
\* may take the call from WRITING back to READING).
C15_StateMachine ==
    [][\A w \in Workers :
          /\ PriceStart(w) => spc'[w] = "START"
          /\ PriceStep(w) =>
                /\ spc[w] = "START" => spc'[w] = "READING"
                /\ spc[w] = "READING" => spc'[w] \in {"NOT_FOUND", "WRITING"}
                /\ spc[w] = "WRITING"
                      => spc'[w] \in {"COMMITTED", "ABORTED", "READING"}
                /\ spc'[w] = "WRITING"
                      => spc[w] = "READING" /\ docs[item_id[w]].exists
                /\ spc'[w] \in {"COMMITTED", "ABORTED"} => spc[w] = "WRITING"]_vars

\* C15 as amended: a call starts in START; START is left for READING, READING
\* for NOT_FOUND (the document was observed absent) or WRITING (it was
\* observed to exist, and that snapshot is kept); WRITING is left for
\* COMMITTED, for ABORTED, or for READING again when the commit is refused and
\* attempts remain; COMMITTED is reached only from WRITING; ABORTED is reached
\* from WRITING and also directly from START or READING when the store call
\* made there fails, and then nothing is written.
C15_StateMachineWithFailures ==
    [][\A w \in Workers :
          /\ PriceStart(w) => spc'[w] = "START"
          /\ PriceStep(w) =>
                /\ spc[w] = "START" => spc'[w] \in {"READING", "ABORTED"}
                /\ spc[w] = "READING"
                      => spc'[w] \in {"NOT_FOUND", "WRITING", "ABORTED"}
                /\ spc[w] = "WRITING"
                      => spc'[w] \in {"COMMITTED", "ABORTED", "READING"}
                /\ spc'[w] = "READING" /\ spc[w] = "WRITING"
                      => attempts'[w] = attempts[w] + 1
                /\ spc'[w] = "WRITING"
                      => /\ spc[w] = "READING"
                         /\ docs[item_id[w]].exists
                         /\ snap'[w] = docs[item_id[w]]
                /\ spc'[w] = "NOT_FOUND"
                      => spc[w] = "READING" /\ ~docs[item_id[w]].exists
                /\ spc'[w] = "COMMITTED" => spc[w] = "WRITING"
                /\ (spc'[w] = "ABORTED" /\ spc[w] # "WRITING")
                      => /\ docs' = docs
                         /\ sresp'[w] = SResp(500, "Transaction failed", 0)
                /\ spc'[w] \in Terminal \ {"done"} => sresp'[w] # NoSResp]_vars

\* a call is back in READING after a refused commit
C15_Witness ==
    \E w \in Workers :
        /\ sop[w] = "update_price" /\ spc[w] = "READING"
        /\ attempts[w] > 0 /\ docs[item_id[w]].exists

\* the number of steps an update_price call in state st, with a attempts
\* finished, can still take
StepsLeft(st, a) ==
    CASE st = "START" -> 2 * MaxAttempts + 1
      [] st = "READING" -> 2 * (MaxAttempts - a)
      [] st = "WRITING" -> 2 * (MaxAttempts - a) - 1
      [] OTHER -> 0

\* C16: an update_price call takes a bounded number of steps however often
\* its commits are refused: the finished attempts stay below the budget, every
\* step of the call either ends it or strictly lowers the number of steps it
\* has left, and a refused commit on the last attempt ends the call with 500
\* "Transaction failed" instead of running txn_fn again.
C16_RetriesAreBounded ==
    [][\A w \in Workers :
          PriceStep(w) =>
            /\ attempts[w] < MaxAttempts
            /\ StepsLeft(spc[w], attempts[w]) > 0
            /\ \/ spc'[w] \in Terminal
               \/ /\ attempts'[w] < MaxAttempts
                  /\ StepsLeft(spc'[w], attempts'[w]) > 0
                  /\ StepsLeft(spc'[w], attempts'[w])
                        < StepsLeft(spc[w], attempts[w])
            /\ (spc[w] = "WRITING" /\ stale[w]
                  /\ attempts[w] + 1 >= MaxAttempts)
                  => /\ spc'[w] = "ABORTED"
                     /\ sresp'[w] = SResp(500, "Transaction failed", 0)
                     /\ docs' = docs]_vars

\* the commit of the last attempt is about to be refused
C16_Witness ==
    \E w \in Workers :
        /\ sop[w] = "update_price" /\ spc[w] = "WRITING" /\ stale[w]
        /\ attempts[w] > 0 /\ attempts[w] + 1 = MaxAttempts

\* C17: the write of update_item changes, in the document it addresses, only
\* the fields the request supplies with a value: every other field is as it
\* was just before the write, the document stays under its key, no other
\* document changes, and a write answered "Item updated" has stored every
\* supplied value.
C17_OnlySuppliedFieldsChange ==
    [][\A w \in Workers :
          (sop[w] = "update_item" /\ spc[w] = "update" /\ spc'[w] # spc[w])
            => LET k == item_id[w]
                   u == item[w]
               IN /\ \A x \in Keys \ {k} : docs'[x] = docs[x]
                  /\ docs'[k].exists = docs[k].exists
                  /\ "name" \notin u.set => docs'[k].name = docs[k].name
                  /\ "description" \notin u.set
                        => docs'[k].description = docs[k].description
                  /\ "price" \notin u.set => docs'[k].price = docs[k].price
                  /\ sresp'[w] = SResp(200, "Item updated", 0)
                        => /\ docs[k].exists
                           /\ "name" \in u.set => docs'[k].name = u.name
                           /\ "description" \in u.set
                                 => docs'[k].description = u.description
                           /\ "price" \in u.set => docs'[k].price = u.price]_vars

\* a PUT that supplied only the name was applied to the document at K: the
\* name changed, the description and the price are as before
C17_Witness ==
    \E w \in Workers :
        /\ sop[w] = "update_item" /\ sresp[w] = SResp(200, "Item updated", 0)
        /\ docs["K"] = Doc("Gadget", NoDescription, 9)

\* C18: whether a call is suppressed is decided by its request_id and the
\* set alone, whatever its message. With non-overlapping calls: a handler
\* past the membership test publishes exactly when its request_id is not
\* recorded; a finished valid call that made no publish call was suppressed
\* and its request_id is recorded; one that made a publish call found every
\* earlier publish of its request_id failed; and once a publish of R was
\* acknowledged, a message that differs from the acknowledged one appears
\* under R only in publishes that failed before it.
C18_DecisionIgnoresMessage ==
    /\ \A p \in Handlers :
          /\ pc[p] = "publish" => request_id[p] \notin processed_requests
          /\ (pc[p] = "done" /\ Valid(data[p]) /\ request_id[p].t = "str")
                => IF calls[p] = 0
                     THEN /\ resp[p] = Resp(202, "Already processed", 0)
                          /\ request_id[p] \in processed_requests
                     ELSE /\ resp[p].body # "Already processed"
                          /\ \A i \in 1..(future[p] - 1) :
                                topic[i].request_id = request_id[p].s
                                    => topic[i].state = "failed"
    /\ \A i, j \in DOMAIN topic :
          (/\ topic[i].state = "acked"
           /\ topic[j].request_id = topic[i].request_id
           /\ topic[j].data # topic[i].data)
              => j < i /\ topic[j].state = "failed"

\* after "hello" was published for a request_id, a call with the same
\* request_id and another message was suppressed
C18_Witness ==
    \E p \in Handlers, i \in DOMAIN topic :
        /\ pc[p] = "done" /\ resp[p] = Resp(202, "Already processed", 0)
        /\ topic[i].request_id = request_id[p].s /\ topic[i].state = "acked"
        /\ topic[i].data = "hello" /\ message[p] = "bye"
        /\ Len(topic) = 1

\* C19: update_item checks existence and writes in two separate store calls,
\* and never brings a document into being: no step of it turns an absent key
\* into a document, and when the document is gone at the time of the write
\* (a delete_item landed after the check) the update fails, the call is
\* answered with an error and the collection is left as it is.
C19_UpdateNeverRecreates ==
    [][\A w \in Workers :
          /\ (sop'[w] = "update_item" /\ spc'[w] # spc[w])
                => \A k \in Keys : ~docs[k].exists => ~docs'[k].exists
          /\ (sop[w] = "update_item" /\ spc[w] = "update"
                /\ spc'[w] # spc[w] /\ ~docs[item_id[w]].exists)
                => /\ docs' = docs
                   /\ sresp'[w].status = 500]_vars

\* the document was deleted between the check and the write of an update_item
C19_Witness ==
    \E w \in Workers :
        /\ sop[w] = "update_item" /\ spc[w] = "update"
        /\ item[w].set # {} /\ ~docs[item_id[w]].exists
====
